---- MODULE Spec2Model ----
(***************************************************************************)
(* Model of the two HTTP services of the monorepo:                         *)
(*   go-services/main.go      (net/http, prometheus counter + histogram)   *)
(*   node-services/index.js   (express, OpenTelemetry counter)             *)
(* One process of one service is modelled: its start-up sequence, the      *)
(* dispatch of requests to the route handlers, the handlers' calls to the  *)
(* database and to redis, and the request instrumentation.  Requests are   *)
(* handled concurrently, one per slot, and interleave at every blocking    *)
(* call.                                                                   *)
(***************************************************************************)
EXTENDS Integers, Sequences, FiniteSets, TLC

\* ---------------------------------------------------------------- bounds
\* requests handled concurrently (goroutines / pending async handlers)
NumSlots == 2
\* requests accepted over the life of the process
MaxRequests == 2
\* rows returned by SELECT name FROM products
MaxRows == 1

Slots == 1..NumSlots

\* ------------------------------------------------------ request alphabet
Services == {"go", "node"}
Paths == {"/", "/healthz", "/login", "/products", "/metrics"}
Methods == {"GET", "POST"}
Keys == Paths \X Methods
\* the requests clients send: a GET of every path, and a POST of /login
Requests == (Paths \X {"GET"}) \cup {<<"/login", "POST">>}

\* error texts a driver can return; they must never reach a client
DbErrs == {"pq: password authentication failed"}
RedisErrs == {"dial tcp 10.0.0.7:6379: i/o timeout"}
ErrTexts == DbErrs \cup RedisErrs
\* the value of a NULL name column
SqlNull == "<NULL>"
\* the element res.json writes for a null name
JsonNull == "<null>"
RowVals == {"tea", "cup", SqlNull}

RECURSIVE SeqsUpTo(_, _)
SeqsUpTo(S, n) ==
  IF n = 0 THEN {<<>>}
  ELSE LET shorter == SeqsUpTo(S, n - 1)
       IN shorter \cup {Append(s, x) : s \in {t \in shorter : Len(t) = n - 1}, x \in S}

RowSets == SeqsUpTo(RowVals, MaxRows)

\* ------------------------------------------------------------- HTTP codes
StatusOK == 200
StatusNotFound == 404
StatusInternalServerError == 500
StatusServiceUnavailable == 503

\* ------------------------------------------------------------------ state
VARIABLES
  svc,        \* which service this process is
  proc,       \* position of the process: start-up step, "serving" or "exited"
  dbInit,     \* outcome of the start-up connection to the database
  redisInit,  \* outcome of the start-up connection to redis
  pc,         \* per slot: position of the request in its handler chain
  path,       \* per slot: r.URL.Path / req.path
  method,     \* per slot: r.Method / req.method
  probe,      \* per slot: dbErr, redisErr and the query error of this request
  st,         \* per slot: the status map and code being assembled by /healthz
  resp,       \* per slot: what has been written to the response
  count,      \* http_requests_total, by (path, method)
  durations,  \* number of observations of http_request_duration_seconds, by path
  completed,  \* history: requests whose response is complete, by (path, method)
  accepted,   \* history: requests accepted so far
  ci          \* one run of the CI/CD workflow: its jobs and what they published

serviceVars == <<svc, proc, dbInit, redisInit, pc, path, method, probe, st, resp,
                 count, durations, completed, accepted>>
vars == <<serviceVars, ci>>

reqVars == <<pc, path, method, probe, st, resp>>
procVars == <<svc, proc, dbInit, redisInit>>
metricVars == <<count, durations>>

\* ------------------------------------------------------------- map values
EmptyMap == [k \in {} |-> ""]

\* m[k] = v on a Go map / JS object: adds the key when it is missing
MapSet(m, k, v) == [x \in (DOMAIN m) \cup {k} |-> IF x = k THEN v ELSE m[x]]

\* dbCalls, redisCalls: the calls of each probe that have returned;
\* rows: the rows the product query returned
NoProbe == [db |-> "unset", redis |-> "unset", query |-> "unset",
            dbCalls |-> 0, redisCalls |-> 0, rows |-> <<>>]
NoStatus == [status |-> EmptyMap, code |-> 0]
NoResp == [code |-> 0, ctype |-> "", kind |-> "none", text |-> "",
           json |-> EmptyMap, names |-> <<>>]

Key(r) == <<path[r], method[r]>>

\* ------------------------------------------------------- CI/CD workflow
\* the jobs of ci-cd.yaml; docker-build is a matrix of two entries
LintJobs == {"go-lint-test", "node-lint-test"}
BuildJobs == {"docker-build/go-service", "docker-build/node-service"}
UpdateJobs == {"update-deployment-go-dev", "update-deployment-node-dev"}
Jobs == LintJobs \cup BuildJobs \cup UpdateJobs

\* bug: the Node update waits for docker-build only, like the Go update
Needs_NodeAfterBuild(j) ==
  CASE j \in BuildJobs -> LintJobs
    [] j \in UpdateJobs -> BuildJobs
    [] OTHER -> {}

\* needs: of each job; needing the matrix job is needing all its entries
Needs(j) ==
  CASE j \in BuildJobs -> LintJobs
    [] j = "update-deployment-go-dev" -> BuildJobs
    [] j = "update-deployment-node-dev" -> {"update-deployment-go-dev"}
    [] OTHER -> {}

\* a push to main has triggered the workflow: every job waits, nothing is
\* pushed to the registry, no values.yaml is committed
CIStart == [job |-> [j \in Jobs |-> "waiting"], started |-> {},
            pushed |-> {}, updated |-> {}]


\* ------------------------------------------------------------------ Init
\* main.go: the globals are declared, main() is about to call initDB.
\* index.js: the module body has run up to app.listen; the pool is created
\* lazily (no connection yet) and redisClient.connect() is pending.
Init ==
  /\ svc \in Services
  /\ proc = IF svc = "go" THEN "initDB" ELSE "listen"
  /\ dbInit = "none"
  /\ redisInit = IF svc = "go" THEN "none" ELSE "pending"
  /\ pc = [r \in Slots |-> "idle"]
  /\ path = [r \in Slots |-> ""]
  /\ method = [r \in Slots |-> ""]
  /\ probe = [r \in Slots |-> NoProbe]
  /\ st = [r \in Slots |-> NoStatus]
  /\ resp = [r \in Slots |-> NoResp]
  /\ count = [k \in Keys |-> 0]
  /\ durations = [p \in Paths |-> 0]
  /\ completed = [k \in Keys |-> 0]
  /\ accepted = 0
  /\ ci = CIStart

\* --------------------------------------------------------------- start-up
\* initDB: sql.Open then db.Ping; either error is log.Fatalf
GoInitDB(out) ==
  /\ svc = "go" /\ proc = "initDB"
  /\ dbInit' = IF out = "nil" THEN "ok" ELSE "failed"
  /\ proc' = IF out = "nil" THEN "initRedis" ELSE "exited"
  /\ UNCHANGED <<ci, svc, redisInit, reqVars, metricVars, completed, accepted>>

\* initRedis: rdb.Ping under a 2 second context; an error (a timeout
\* included) is log.Fatalf
GoInitRedis(out) ==
  /\ svc = "go" /\ proc = "initRedis"
  /\ redisInit' = IF out = "nil" THEN "ok" ELSE "failed"
  /\ proc' = IF out = "nil" THEN "listen" ELSE "exited"
  /\ UNCHANGED <<ci, svc, dbInit, reqVars, metricVars, completed, accepted>>

\* main: the routes are registered and http.ListenAndServe is called; it
\* returns only with an error, which is log.Fatalf
GoListen(out) ==
  /\ svc = "go" /\ proc = "listen"
  /\ proc' = IF out = "nil" THEN "serving" ELSE "exited"
  /\ UNCHANGED <<ci, svc, dbInit, redisInit, reqVars, metricVars, completed, accepted>>

\* the start-up block: await redisClient.connect(); a rejection is caught
\* and logged, nothing else happens
NodeRedisConnect(out) ==
  /\ svc = "node" /\ redisInit = "pending" /\ proc # "exited"
  /\ redisInit' = IF out = "nil" THEN "ok" ELSE "failed"
  /\ UNCHANGED <<ci, svc, proc, dbInit, reqVars, metricVars, completed, accepted>>

\* app.listen(PORT): an 'error' event of the server (port in use) has no
\* listener and ends the process
NodeListen(out) ==
  /\ svc = "node" /\ proc = "listen"
  /\ proc' = IF out = "nil" THEN "serving" ELSE "exited"
  /\ UNCHANGED <<ci, svc, dbInit, redisInit, reqVars, metricVars, completed, accepted>>

\* --------------------------------------------------------------- dispatch
\* bug: /healthz registered without withMetrics
GoWrapped_NoHealth(p) == p \in {"/", "/login", "/products"}

\* main.go, route registration: which patterns are registered through
\* withMetrics.  "/" is the catch-all pattern of the default mux.
GoWrapped(p) == p \in {"/", "/healthz", "/login", "/products"}

\* the default mux: the handler a path is served by
GoRoute(p) ==
  CASE p = "/healthz" -> "go_ping_db"
    [] p = "/login" -> "go_login"
    [] p = "/products" -> "go_query"
    [] p = "/metrics" -> "go_metrics"
    [] OTHER -> "go_root"

\* express: the routes are all app.get; anything else falls through to the
\* default 404 handler
NodeRoute(p, m) ==
  CASE m = "GET" /\ p = "/healthz" -> "n_health_db"
    [] m = "GET" /\ p = "/login" -> "n_login"
    [] m = "GET" /\ p = "/products" -> "n_query"
    [] m = "GET" /\ p = "/metrics" -> "n_metrics"
    [] OTHER -> "n_notfound"

\* bug: the counter is incremented before the handler is called
Accept_CountsOnArrival(r, p, m) ==
  /\ proc = "serving" /\ pc[r] = "idle" /\ accepted < MaxRequests
  /\ \A q \in Slots : q < r => pc[q] # "idle"
  /\ accepted' = accepted + 1
  /\ path' = [path EXCEPT ![r] = p]
  /\ method' = [method EXCEPT ![r] = m]
  /\ pc' = [pc EXCEPT ![r] = IF svc = "go" THEN GoRoute(p) ELSE "mw_count"]
  /\ count' = IF svc = "go" /\ GoWrapped(p)
              THEN [count EXCEPT ![<<p, m>>] = @ + 1] ELSE count
  /\ UNCHANGED <<ci, procVars, probe, st, resp, durations, completed>>

\* A request arrives.  go: the mux calls the registered handler, for a wrapped
\* route the closure of withMetrics, which takes the start time and calls the
\* handler.  node: morgan and express.json pass the request on to the
\* counting middleware.
Accept(r, p, m) ==
  /\ proc = "serving" /\ pc[r] = "idle" /\ accepted < MaxRequests
  /\ \A q \in Slots : q < r => pc[q] # "idle"
  /\ accepted' = accepted + 1
  /\ path' = [path EXCEPT ![r] = p]
  /\ method' = [method EXCEPT ![r] = m]
  /\ pc' = [pc EXCEPT ![r] = IF svc = "go" THEN GoRoute(p) ELSE "mw_count"]
  /\ UNCHANGED <<ci, procVars, probe, st, resp, metricVars, completed>>

\* the response is complete: the handler chain has returned
Finish(r, next) ==
  /\ pc' = [pc EXCEPT ![r] = next]
  /\ completed' = IF next = "done" THEN [completed EXCEPT ![Key(r)] = @ + 1]
                  ELSE completed

\* where a Go handler returns to: the rest of withMetrics, or the server
GoAfterHandler(r) == IF GoWrapped(path[r]) THEN "mw_inc" ELSE "done"

\* ------------------------------------------------------------ go handlers
\* w.WriteHeader(code); w.Write(text): no Content-Type is set by the handler
GoWrite(code, text) ==
  [NoResp EXCEPT !.code = code, !.kind = "text", !.text = text]

\* http.Error(w, msg, code): text/plain, and Fprintln appends a newline
HttpError(msg, code) ==
  [NoResp EXCEPT !.code = code, !.ctype = "text/plain; charset=utf-8",
                 !.kind = "text", !.text = msg \o "\n"]

\* rootHandler
GoRootHandler(r) ==
  /\ svc = "go" /\ pc[r] = "go_root"
  /\ resp' = [resp EXCEPT ![r] = GoWrite(StatusOK, "Welcome to the Go service!")]
  /\ Finish(r, GoAfterHandler(r))
  /\ UNCHANGED <<ci, procVars, path, method, probe, st, metricVars, accepted>>

\* bug: a failed database probe returns early, redis is never asked
GoHealthPingDB_ShortCircuit(r, out) ==
  /\ svc = "go" /\ pc[r] = "go_ping_db"
  /\ probe' = [probe EXCEPT ![r].db = out, ![r].dbCalls = @ + 1]
  /\ pc' = [pc EXCEPT ![r] = IF out = "nil" THEN "go_ping_redis" ELSE "go_health_write"]
  /\ UNCHANGED <<ci, procVars, path, method, st, resp, metricVars, completed, accepted>>

\* healthHandler: dbErr := db.Ping()
GoHealthPingDB(r, out) ==
  /\ svc = "go" /\ pc[r] = "go_ping_db"
  /\ probe' = [probe EXCEPT ![r].db = out, ![r].dbCalls = @ + 1]
  /\ pc' = [pc EXCEPT ![r] = "go_ping_redis"]
  /\ UNCHANGED <<ci, procVars, path, method, st, resp, metricVars, completed, accepted>>

\* healthHandler: redisErr := rdb.Ping(ctx).Err(); the client's default
\* dial and read timeouts turn a silent redis into an error
GoHealthPingRedis(r, out) ==
  /\ svc = "go" /\ pc[r] = "go_ping_redis"
  /\ probe' = [probe EXCEPT ![r].redis = out, ![r].redisCalls = @ + 1]
  /\ pc' = [pc EXCEPT ![r] = "go_health_write"]
  /\ UNCHANGED <<ci, procVars, path, method, st, resp, metricVars, completed, accepted>>

\* bug: the second test overwrites the code instead of only raising it
GoHealthStatus_LastWins(dbErr, redisErr) ==
  LET s0 == [database |-> "ok", redis |-> "ok"]
      s1 == IF dbErr # "nil" THEN MapSet(s0, "database", "unreachable") ELSE s0
      s2 == IF redisErr # "nil" THEN MapSet(s1, "redis", "unreachable") ELSE s1
      c2 == IF redisErr # "nil" THEN StatusServiceUnavailable ELSE StatusOK
  IN [status |-> s2, code |-> c2]

\* bug: the error of the probe is put into the status map
GoHealthStatus_LeakErr(dbErr, redisErr) ==
  LET s0 == [database |-> "ok", redis |-> "ok"]
      s1 == IF dbErr # "nil" THEN MapSet(s0, "database", dbErr) ELSE s0
      s2 == IF redisErr # "nil" THEN MapSet(s1, "redis", redisErr) ELSE s1
      c2 == IF dbErr # "nil" \/ redisErr # "nil" THEN StatusServiceUnavailable ELSE StatusOK
  IN [status |-> s2, code |-> c2]

\* healthHandler: the status map and the code built from dbErr and redisErr
GoHealthStatus(dbErr, redisErr) ==
  LET s0 == [database |-> "ok", redis |-> "ok"]
      c0 == StatusOK
      s1 == IF dbErr # "nil" THEN MapSet(s0, "database", "unreachable") ELSE s0
      c1 == IF dbErr # "nil" THEN StatusServiceUnavailable ELSE c0
      s2 == IF redisErr # "nil" THEN MapSet(s1, "redis", "unreachable") ELSE s1
      c2 == IF redisErr # "nil" THEN StatusServiceUnavailable ELSE c1
  IN [status |-> s2, code |-> c2]

\* json.NewEncoder(w).Encode(v) after w.WriteHeader(code)
GoEncodeMap(code, m) ==
  [NoResp EXCEPT !.code = code, !.kind = "object", !.json = m]

\* healthHandler: w.WriteHeader(code) and the encoded status map
GoHealthWrite(r) ==
  /\ svc = "go" /\ pc[r] = "go_health_write"
  /\ LET h == GoHealthStatus(probe[r].db, probe[r].redis)
     IN /\ st' = [st EXCEPT ![r] = h]
        /\ resp' = [resp EXCEPT ![r] = GoEncodeMap(h.code, h.status)]
  /\ Finish(r, GoAfterHandler(r))
  /\ UNCHANGED <<ci, procVars, path, method, probe, metricVars, accepted>>

\* loginHandler: w.Write without WriteHeader is an implicit 200
GoLoginHandler(r) ==
  /\ svc = "go" /\ pc[r] = "go_login"
  /\ resp' = [resp EXCEPT ![r] = GoWrite(StatusOK, "Logged in")]
  /\ Finish(r, GoAfterHandler(r))
  /\ UNCHANGED <<ci, procVars, path, method, probe, st, metricVars, accepted>>

\* bug: the error of the driver is sent to the client
GoProductsQueryError_Leak(r, err) ==
  /\ svc = "go" /\ pc[r] = "go_query"
  /\ probe' = [probe EXCEPT ![r].query = err]
  /\ resp' = [resp EXCEPT ![r] = HttpError(err, StatusInternalServerError)]
  /\ Finish(r, GoAfterHandler(r))
  /\ UNCHANGED <<ci, procVars, path, method, st, metricVars, accepted>>

\* bug: log.Fatalf instead of log.Printf: the failed query ends the process
GoProductsQueryError_Fatal(r, err) ==
  /\ svc = "go" /\ pc[r] = "go_query"
  /\ probe' = [probe EXCEPT ![r].query = err]
  /\ proc' = "exited"
  /\ UNCHANGED <<ci, svc, dbInit, redisInit, pc, path, method, st, resp, metricVars,
                 completed, accepted>>

\* productsHandler: db.Query failed: log, http.Error, return
GoProductsQueryError(r, err) ==
  /\ svc = "go" /\ pc[r] = "go_query"
  /\ probe' = [probe EXCEPT ![r].query = err]
  /\ resp' = [resp EXCEPT ![r] = HttpError("DB error", StatusInternalServerError)]
  /\ Finish(r, GoAfterHandler(r))
  /\ UNCHANGED <<ci, procVars, path, method, st, metricVars, accepted>>

\* productsHandler: the loop over rows.Next(); a row whose Scan fails (a
\* NULL name into a string) is logged and skipped
RECURSIVE GoScanRows(_)
GoScanRows(rows) ==
  IF rows = <<>> THEN <<>>
  ELSE IF Head(rows) = SqlNull THEN GoScanRows(Tail(rows))
       ELSE <<Head(rows)>> \o GoScanRows(Tail(rows))

\* json.NewEncoder(w).Encode(products): a nil slice encodes as null
GoEncodeNames(products) ==
  IF products = <<>>
  THEN [NoResp EXCEPT !.code = StatusOK, !.kind = "null"]
  ELSE [NoResp EXCEPT !.code = StatusOK, !.kind = "array", !.names = products]

\* productsHandler: db.Query succeeded
GoProductsQueryOk(r, rows) ==
  /\ svc = "go" /\ pc[r] = "go_query"
  /\ probe' = [probe EXCEPT ![r].query = "nil", ![r].rows = rows]
  /\ resp' = [resp EXCEPT ![r] = GoEncodeNames(GoScanRows(rows))]
  /\ Finish(r, GoAfterHandler(r))
  /\ UNCHANGED <<ci, procVars, path, method, st, metricVars, accepted>>

\* promhttp.Handler(): the exposition of the registry
GoMetricsHandler(r) ==
  /\ svc = "go" /\ pc[r] = "go_metrics"
  /\ resp' = [resp EXCEPT ![r] = [NoResp EXCEPT !.code = StatusOK, !.kind = "metrics"]]
  /\ Finish(r, GoAfterHandler(r))
  /\ UNCHANGED <<ci, procVars, path, method, probe, st, metricVars, accepted>>

\* bug: the counter is set, not incremented
CounterInc_Set(c, k) == [c EXCEPT ![k] = 1]

\* bug: read, add, write back without synchronisation: of two requests that
\* are at the increment of the same key together, one update is lost
CounterInc_LostUpdate(c, k) ==
  IF Cardinality({q \in Slots : pc[q] \in {"mw_inc", "mw_count"} /\ Key(q) = k}) > 1
  THEN c
  ELSE [c EXCEPT ![k] = @ + 1]

\* CounterVec.WithLabelValues(...).Inc(): one atomic addition
CounterInc(c, k) == [c EXCEPT ![k] = @ + 1]

\* bug: the middleware writes a status of its own
GoWithMetricsInc_WritesStatus(r) ==
  /\ svc = "go" /\ pc[r] = "mw_inc"
  /\ count' = [count EXCEPT ![Key(r)] = @ + 1]
  /\ resp' = [resp EXCEPT ![r].code = StatusOK]
  /\ pc' = [pc EXCEPT ![r] = "mw_observe"]
  /\ UNCHANGED <<ci, procVars, path, method, probe, st, durations, completed, accepted>>

\* withMetrics, after handler(w, r) has returned: the counter
GoWithMetricsInc(r) ==
  /\ svc = "go" /\ pc[r] = "mw_inc"
  /\ count' = CounterInc(count, Key(r))
  /\ pc' = [pc EXCEPT ![r] = "mw_observe"]
  /\ UNCHANGED <<ci, procVars, path, method, probe, st, resp, durations, completed, accepted>>

\* bug: the duration is computed but never observed
GoWithMetricsObserve_Skip(r) ==
  /\ svc = "go" /\ pc[r] = "mw_observe"
  /\ Finish(r, "done")
  /\ UNCHANGED <<ci, procVars, path, method, probe, st, resp, count, durations, accepted>>

\* withMetrics: the histogram, then the closure returns
GoWithMetricsObserve(r) ==
  /\ svc = "go" /\ pc[r] = "mw_observe"
  /\ durations' = [durations EXCEPT ![path[r]] = @ + 1]
  /\ Finish(r, "done")
  /\ UNCHANGED <<ci, procVars, path, method, probe, st, resp, count, accepted>>

\* ---------------------------------------------------------- node handlers
\* res.status(code).send(text)
NodeSend(code, text) ==
  [NoResp EXCEPT !.code = code, !.ctype = "text/html; charset=utf-8",
                 !.kind = "text", !.text = text]

\* res.status(code).json(object)
NodeJsonMap(code, m) ==
  [NoResp EXCEPT !.code = code, !.ctype = "application/json; charset=utf-8",
                 !.kind = "object", !.json = m]

\* res.json(array): an empty array is still an array
NodeJsonNames(names) ==
  [NoResp EXCEPT !.code = StatusOK, !.ctype = "application/json; charset=utf-8",
                 !.kind = "array", !.names = names]

\* /healthz: let dbStatus = 'ok'; let redisStatus = 'ok'; let code = 200
NodeHealthLocals == [status |-> [database |-> "ok", redis |-> "ok"], code |-> StatusOK]

\* the counting middleware: requestCounter.add(1, {route, method}); next()
NodeCount(r) ==
  /\ svc = "node" /\ pc[r] = "mw_count"
  /\ count' = CounterInc(count, Key(r))
  /\ LET h == NodeRoute(path[r], method[r])
     IN /\ pc' = [pc EXCEPT ![r] = h]
        /\ st' = IF h = "n_health_db" THEN [st EXCEPT ![r] = NodeHealthLocals] ELSE st
  /\ UNCHANGED <<ci, procVars, path, method, probe, resp, durations, completed, accepted>>

\* /healthz: catch of await db.query('SELECT 1')
NodeCatchDB(h) ==
  [status |-> MapSet(h.status, "database", "unreachable"),
   code |-> StatusServiceUnavailable]

\* /healthz: catch of await redisClient.ping()
NodeCatchRedis(h) ==
  [status |-> MapSet(h.status, "redis", "unreachable"),
   code |-> StatusServiceUnavailable]

\* /healthz: try { await db.query('SELECT 1') } catch { ... }
NodeHealthDB(r, out) ==
  /\ svc = "node" /\ pc[r] = "n_health_db"
  /\ probe' = [probe EXCEPT ![r].db = out, ![r].dbCalls = @ + 1]
  /\ st' = [st EXCEPT ![r] = IF out # "nil" THEN NodeCatchDB(@) ELSE @]
  /\ pc' = [pc EXCEPT ![r] = "n_health_redis"]
  /\ UNCHANGED <<ci, procVars, path, method, resp, metricVars, completed, accepted>>

\* /healthz: try { await redisClient.ping() } catch { ... }
NodeHealthRedis(r, out) ==
  /\ svc = "node" /\ pc[r] = "n_health_redis"
  /\ probe' = [probe EXCEPT ![r].redis = out, ![r].redisCalls = @ + 1]
  /\ st' = [st EXCEPT ![r] = IF out # "nil" THEN NodeCatchRedis(@) ELSE @]
  /\ pc' = [pc EXCEPT ![r] = "n_health_send"]
  /\ UNCHANGED <<ci, procVars, path, method, resp, metricVars, completed, accepted>>

\* /healthz: res.status(code).json({database: dbStatus, redis: redisStatus})
NodeHealthSend(r) ==
  /\ svc = "node" /\ pc[r] = "n_health_send"
  /\ resp' = [resp EXCEPT ![r] = NodeJsonMap(st[r].code, st[r].status)]
  /\ Finish(r, "done")
  /\ UNCHANGED <<ci, procVars, path, method, probe, st, metricVars, accepted>>

\* /login: res.send('Logged in')
NodeLoginHandler(r) ==
  /\ svc = "node" /\ pc[r] = "n_login"
  /\ resp' = [resp EXCEPT ![r] = NodeSend(StatusOK, "Logged in")]
  /\ Finish(r, "done")
  /\ UNCHANGED <<ci, procVars, path, method, probe, st, metricVars, accepted>>

\* /products: result.rows.map(r => r.name); a NULL name is a null element
RECURSIVE NodeMapNames(_)
NodeMapNames(rows) ==
  IF rows = <<>> THEN <<>>
  ELSE <<IF Head(rows) = SqlNull THEN JsonNull ELSE Head(rows)>>
       \o NodeMapNames(Tail(rows))

\* /products: the query resolved
NodeProductsQueryOk(r, rows) ==
  /\ svc = "node" /\ pc[r] = "n_query"
  /\ probe' = [probe EXCEPT ![r].query = "nil", ![r].rows = rows]
  /\ resp' = [resp EXCEPT ![r] = NodeJsonNames(NodeMapNames(rows))]
  /\ Finish(r, "done")
  /\ UNCHANGED <<ci, procVars, path, method, st, metricVars, accepted>>

\* /products: the query rejected: log, res.status(500).send('DB error')
NodeProductsQueryError(r, err) ==
  /\ svc = "node" /\ pc[r] = "n_query"
  /\ probe' = [probe EXCEPT ![r].query = err]
  /\ resp' = [resp EXCEPT ![r] = NodeSend(StatusInternalServerError, "DB error")]
  /\ Finish(r, "done")
  /\ UNCHANGED <<ci, procVars, path, method, st, metricVars, accepted>>

\* /metrics: res.end(await promExporter.getMetricsAsJSON())
NodeMetricsHandler(r) ==
  /\ svc = "node" /\ pc[r] = "n_metrics"
  /\ resp' = [resp EXCEPT ![r] = [NoResp EXCEPT !.code = StatusOK, !.kind = "metrics"]]
  /\ Finish(r, "done")
  /\ UNCHANGED <<ci, procVars, path, method, probe, st, metricVars, accepted>>

\* no route matches: the default handler of express answers 404
NodeNotFound(r) ==
  /\ svc = "node" /\ pc[r] = "n_notfound"
  /\ resp' = [resp EXCEPT ![r] = NodeSend(StatusNotFound, "Cannot " \o method[r] \o " " \o path[r])]
  /\ Finish(r, "done")
  /\ UNCHANGED <<ci, procVars, path, method, probe, st, metricVars, accepted>>

\* ------------------------------------------------------------ environment
\* the calls that wait for the dependency with no deadline of their own:
\* db.Ping() and db.Query() (context.Background, no connect_timeout in the
\* DSN), pool.query and redisClient.ping (no timeout configured)
Blocking(s) ==
  IF s = "go" THEN {"go_ping_db", "go_query"}
  ELSE {"n_health_db", "n_health_redis", "n_query"}

\* the dependency never answers the call the request is waiting in
Stall(r) ==
  /\ pc[r] \in Blocking(svc)
  /\ pc' = [pc EXCEPT ![r] = "stalled"]
  /\ UNCHANGED <<ci, procVars, path, method, probe, st, resp, metricVars, completed, accepted>>

\* the client has read the response; the slot serves the next request
Release(r) ==
  /\ pc[r] = "done"
  /\ pc' = [pc EXCEPT ![r] = "idle"]
  /\ path' = [path EXCEPT ![r] = ""]
  /\ method' = [method EXCEPT ![r] = ""]
  /\ probe' = [probe EXCEPT ![r] = NoProbe]
  /\ st' = [st EXCEPT ![r] = NoStatus]
  /\ resp' = [resp EXCEPT ![r] = NoResp]
  /\ UNCHANGED <<ci, procVars, metricVars, completed, accepted>>

\* ------------------------------------------------------------------- Next
DbOutcomes == {"nil"} \cup DbErrs
RedisOutcomes == {"nil"} \cup RedisErrs
ListenOutcomes == {"nil", "listen tcp :8080: bind: address already in use"}

Startup ==
  \/ \E out \in DbOutcomes : GoInitDB(out)
  \/ \E out \in RedisOutcomes : GoInitRedis(out)
  \/ \E out \in ListenOutcomes : GoListen(out)
  \/ \E out \in RedisOutcomes : NodeRedisConnect(out)
  \/ \E out \in ListenOutcomes : NodeListen(out)

\* the steps the service itself takes for the request in slot r
Step(r) ==
  \/ GoRootHandler(r)
  \/ \E out \in DbOutcomes : GoHealthPingDB(r, out)
  \/ \E out \in RedisOutcomes : GoHealthPingRedis(r, out)
  \/ GoHealthWrite(r)
  \/ GoLoginHandler(r)
  \/ \E err \in DbErrs : GoProductsQueryError(r, err)
  \/ \E rows \in RowSets : GoProductsQueryOk(r, rows)
  \/ GoMetricsHandler(r)
  \/ GoWithMetricsInc(r)
  \/ GoWithMetricsObserve(r)
  \/ NodeCount(r)
  \/ \E out \in DbOutcomes : NodeHealthDB(r, out)
  \/ \E out \in RedisOutcomes : NodeHealthRedis(r, out)
  \/ NodeHealthSend(r)
  \/ NodeLoginHandler(r)
  \/ \E rows \in RowSets : NodeProductsQueryOk(r, rows)
  \/ \E err \in DbErrs : NodeProductsQueryError(r, err)
  \/ NodeMetricsHandler(r)
  \/ NodeNotFound(r)

Next ==
  \/ Startup
  \/ \E r \in Slots, q \in Requests : Accept(r, q[1], q[2])
  \/ \E r \in Slots : Step(r)
  \/ \E r \in Slots : Stall(r)
  \/ \E r \in Slots : Release(r)

Spec == Init /\ [][Next]_vars

\* the runtime schedules every goroutine / every resolved promise: a step of
\* the service that can be taken is taken.  Nothing obliges the dependency
\* to answer, nor a client to send a request.
FairSpec == Spec /\ \A r \in Slots : WF_vars(Step(r)) /\ WF_vars(Release(r))

\* ---------------------------------------------------- the workflow's run
\* a job starts once every job it needs has succeeded (no job has an if:)
CIStartJob(j) ==
  /\ ci.job[j] = "waiting"
  /\ \A n \in Needs(j) : ci.job[n] = "success"
  /\ ci' = [ci EXCEPT !.job[j] = "running", !.started = @ \cup {j}]
  /\ UNCHANGED serviceVars

\* a job is skipped when a job it needs has failed, was cancelled or skipped
CISkipJob(j) ==
  /\ ci.job[j] = "waiting"
  /\ \E n \in Needs(j) : ci.job[n] \in {"failure", "cancelled", "skipped"}
  /\ ci' = [ci EXCEPT !.job[j] = "skipped"]
  /\ UNCHANGED serviceVars

\* a step of the job fails: lint, tests, docker build, docker push or the
\* commit of values.yaml; nothing is published by a failed job
CIJobFails(j) ==
  /\ ci.job[j] = "running"
  /\ ci' = [ci EXCEPT !.job[j] = "failure"]
  /\ UNCHANGED serviceVars

\* the last step of the job succeeds: docker push for a matrix entry, the
\* commit of values.yaml by yaml-update-action for an update job
CIJobSucceeds(j) ==
  /\ ci.job[j] = "running"
  /\ ci' = [ci EXCEPT !.job[j] = "success",
                      !.pushed = IF j \in BuildJobs THEN @ \cup {j} ELSE @,
                      !.updated = IF j \in UpdateJobs THEN @ \cup {j} ELSE @]
  /\ UNCHANGED serviceVars

\* the matrix has the default fail-fast: when one entry has failed, the
\* entry that is still queued or running is cancelled
CIFailFast(j) ==
  /\ j \in BuildJobs /\ ci.job[j] \in {"waiting", "running"}
  /\ \E o \in BuildJobs \ {j} : ci.job[o] = "failure"
  /\ ci' = [ci EXCEPT !.job[j] = "cancelled"]
  /\ UNCHANGED serviceVars

CINext ==
  \E j \in Jobs :
    \/ CIStartJob(j)
    \/ CISkipJob(j)
    \/ CIJobFails(j)
    \/ CIJobSucceeds(j)
    \/ CIFailFast(j)

\* the workflow run alone; the service variables keep their initial values
CIInit == Init /\ svc = "go"

CISpec == CIInit /\ [][CINext]_vars

\* ================================================================ claims
\* the health handler of slot r has written its response
HealthAnswered(r) ==
  /\ probe[r].db # "unset" /\ probe[r].redis # "unset"
  /\ resp[r] # NoResp

\* C1: a /healthz response has status 200 exactly when both probes succeeded
\* and 503 otherwise; its "database" field is "ok" exactly when the database
\* probe succeeded and its "redis" field is "ok" exactly when the redis probe
\* succeeded, whatever the other probe did.
C1_HealthReflectsProbes ==
  \A r \in Slots : HealthAnswered(r) =>
    /\ resp[r].code = (IF probe[r].db = "nil" /\ probe[r].redis = "nil"
                       THEN StatusOK ELSE StatusServiceUnavailable)
    /\ resp[r].kind = "object"
    /\ {"database", "redis"} \subseteq DOMAIN resp[r].json
    /\ (resp[r].json["database"] = "ok") <=> (probe[r].db = "nil")
    /\ (resp[r].json["redis"] = "ok") <=> (probe[r].redis = "nil")

\* two answered health checks, one with only redis down, one with only the
\* database down
C1_Witness ==
  \E r1, r2 \in Slots :
    /\ HealthAnswered(r1) /\ probe[r1].db = "nil" /\ probe[r1].redis # "nil"
    /\ HealthAnswered(r2) /\ probe[r2].db # "nil" /\ probe[r2].redis = "nil"
    /\ resp[r1].code = StatusServiceUnavailable
    /\ resp[r2].code = StatusServiceUnavailable

\* C5: the body of a /healthz response is a mapping with exactly the keys
\* "database" and "redis", whose values are "ok" or "unreachable"; the text of
\* a probe's error is nowhere in the response.
C5_HealthBodyLiteralOnly ==
  \A r \in Slots : HealthAnswered(r) =>
    /\ resp[r].kind = "object"
    /\ DOMAIN resp[r].json = {"database", "redis"}
    /\ \A k \in DOMAIN resp[r].json :
         /\ resp[r].json[k] \in {"ok", "unreachable"}
         /\ resp[r].json[k] \notin ErrTexts
    /\ resp[r].text = "" /\ resp[r].names = <<>>

\* a health check answered after both probes returned an error text
C5_Witness ==
  \E r \in Slots :
    /\ HealthAnswered(r)
    /\ probe[r].db \in DbErrs /\ probe[r].redis \in RedisErrs
    /\ resp[r].json["database"] = "unreachable"
    /\ resp[r].json["redis"] = "unreachable"

\* C3 (as claimed): the process serves, and answers a request, only if the
\* start-up connections to the database and to redis both succeeded.
C3_ServesOnlyAfterBothConnected ==
  (proc = "serving" \/ \E r \in Slots : pc[r] # "idle")
    => (dbInit = "ok" /\ redisInit = "ok")

\* C2 (as claimed): every request to /healthz eventually receives a
\* response, whatever the probes do.
C2_HealthAlwaysAnswered ==
  \A r \in Slots :
    (path[r] = "/healthz" /\ pc[r] # "idle") ~> (pc[r] = "done")

\* ------------------------------------------------------ counting claims
RECURSIVE SumOver(_, _)
SumOver(f, S) ==
  IF S = {} THEN 0
  ELSE LET x == CHOOSE y \in S : TRUE IN f[x] + SumOver(f, S \ {x})

\* requests of key k that are being handled
InFlight(k) == Cardinality({r \in Slots : pc[r] \notin {"idle", "done"} /\ Key(r) = k})

\* the keys whose requests run through the counting middleware: all of them
\* in the Node service, all but /metrics in the Go service
Instrumented(k) == svc = "node" \/ k[1] # "/metrics"

CountOfPath(p) == SumOver(count, {p} \X Methods)
CompletedOfPath(p) == SumOver(completed, {p} \X Methods)

AllCompleted == \A r \in Slots : pc[r] \in {"idle", "done"}

QueryFailed(r) == probe[r].query \in DbErrs

C8_MiddlewareLeavesResponse ==
  /\ [](\A r \in Slots : pc[r] = "mw_count" => resp[r] = NoResp)
  /\ [][\A r \in Slots :
          pc[r] \in {"mw_count", "mw_inc", "mw_observe"} => resp'[r] = resp[r]]_vars

\* a 503 of the health handler has gone through withMetrics and is complete
C8_Witness ==
  \E r \in Slots :
    /\ svc = "go" /\ pc[r] = "done" /\ GoWrapped(path[r])
    /\ resp[r].code = StatusServiceUnavailable
    /\ count[Key(r)] >= 1 /\ durations[path[r]] >= 1

\* C9: once the process serves, no step of a request ends it.
C9_ServingNeverEnds ==
  [][proc = "serving" => proc' = "serving"]_vars

\* the process serves after a failed product query and a failed health
\* check were both answered
C9_Witness ==
  \E r1, r2 \in Slots :
    /\ proc = "serving"
    /\ pc[r1] = "done" /\ resp[r1].code = StatusInternalServerError
    /\ pc[r2] = "done" /\ resp[r2].code = StatusServiceUnavailable

\* ------------------------------------------------- second group of claims
\* C11: in one /healthz request each probe is called once and no more,
\* the redis probe also after the database probe failed, and the response
\* is written only after both probes have returned.
C11_EachProbeOnce ==
  \A r \in Slots : path[r] = "/healthz" =>
    /\ probe[r].dbCalls <= 1 /\ probe[r].redisCalls <= 1
    /\ probe[r].db \in DbErrs /\ pc[r] \in {"go_health_write", "n_health_send", "done"}
         => probe[r].redisCalls = 1
    /\ resp[r] # NoResp => probe[r].dbCalls = 1 /\ probe[r].redisCalls = 1

\* a health check is answered after the database probe failed and the redis
\* probe was still called
C11_Witness ==
  \E r \in Slots :
    /\ path[r] = "/healthz" /\ pc[r] = "done"
    /\ probe[r].db \in DbErrs /\ probe[r].dbCalls = 1 /\ probe[r].redisCalls = 1
    /\ probe[r].redis = "nil"

QueryOk(r) == probe[r].query = "nil"

\* no row of the result has a NULL name
NoNullName(rows) == \A i \in 1..Len(rows) : rows[i] # SqlNull

\* C12 (as claimed): a successful product query is answered 200 with a
\* JSON array of the names of the rows, in result order, an empty array for
\* an empty result.
C12_ProductsArrayOfNames ==
  \A r \in Slots : QueryOk(r) /\ NoNullName(probe[r].rows) =>
    /\ resp[r].code = StatusOK
    /\ resp[r].kind = "array"
    /\ resp[r].names = probe[r].rows

\* the names of the rows whose Scan succeeds, in result order
ScannedNames(rows) == SelectSeq(rows, LAMBDA v : v # SqlNull)

\* C16 (as claimed): in the Go service, when Scan fails on a row of a
\* successful query, the response is still 200 and its array holds exactly
\* the names of the rows whose Scan succeeded, in result order.
C16_ScanFailureSkipsRow ==
  \A r \in Slots :
    svc = "go" /\ QueryOk(r) /\ ~NoNullName(probe[r].rows) =>
      /\ resp[r].code = StatusOK
      /\ resp[r].kind = "array"
      /\ resp[r].names = ScannedNames(probe[r].rows)

\* C13 (as claimed): a GET or a POST of /login is answered 200 with the
\* text "Logged in", and no probe or query is made for it.
C13_LoginAlwaysLoggedIn ==
  \A r \in Slots : path[r] = "/login" /\ pc[r] = "done" =>
    /\ resp[r].code = StatusOK
    /\ resp[r].kind = "text" /\ resp[r].text = "Logged in"
    /\ probe[r] = NoProbe

\* the handler of slot r has returned: it has written its response
HandlerReturned(r) == resp[r] # NoResp

\* requests of key k whose handler has returned and which are not complete
ReturnedInFlight(k) ==
  Cardinality({r \in Slots : pc[r] \notin {"idle", "done"} /\ Key(r) = k
                             /\ HandlerReturned(r)})

\* C14 (as claimed): no request is counted while its handler has not yet
\* started or is still running.
C14_CountedOnlyAfterHandler ==
  \A k \in Keys : count[k] <= completed[k] + ReturnedInFlight(k)

\* C14 (amended): in the Go service no request is counted while its handler
\* has not yet started or is still running; in the Node service a request is
\* counted on arrival, before its route handler runs.
C14_GoAfterNodeOnArrival ==
  \A k \in Keys :
    IF svc = "go"
    THEN count[k] <= completed[k] + ReturnedInFlight(k)
    ELSE count[k] = completed[k]
           + Cardinality({r \in Slots : pc[r] \notin {"idle", "done", "mw_count"}
                                        /\ Key(r) = k})

\* in the Go service one request is counted after its handler returned while
\* the handler of another is still running and not counted
C14_Witness ==
  \E r1, r2 \in Slots :
    /\ svc = "go"
    /\ pc[r1] = "mw_observe" /\ HandlerReturned(r1) /\ count[Key(r1)] = 1
    /\ pc[r2] = "go_ping_redis" /\ count[Key(r2)] = 0

\* C15 (as claimed): when no request is in flight, the observations of each
\* route are as many as its counted requests of all methods.
C15_OneObservationPerRequest ==
  AllCompleted => \A p \in Paths : durations[p] = CountOfPath(p)

\* C15 (amended): in the Go service, when no request is in flight, the
\* observations of each route are as many as its counted requests of all
\* methods; the Node service records no latency observation at all.
C15_GoOneObservationPerRequest ==
  /\ svc = "go" /\ AllCompleted => \A p \in Paths : durations[p] = CountOfPath(p)
  /\ svc = "node" => \A p \in Paths : durations[p] = 0

\* the Go service has answered a GET and a POST of /login: two observations
\* of the route, one count for each method
C15_Witness ==
  /\ svc = "go" /\ AllCompleted
  /\ durations["/login"] = 2
  /\ count[<<"/login", "GET">>] = 1 /\ count[<<"/login", "POST">>] = 1

\* C17: in a run of the workflow, a docker-build entry starts only after
\* both lint-and-test jobs succeeded, the Go chart update only after every
\* docker-build entry succeeded, the Node chart update only after the Go
\* chart update succeeded; so nothing is pushed or committed when a test job
\* did not succeed, and the two chart updates never run together.
C17_PipelineOrder ==
  /\ \A b \in BuildJobs :
       b \in ci.started => \A l \in LintJobs : ci.job[l] = "success"
  /\ "update-deployment-go-dev" \in ci.started
       => \A b \in BuildJobs : ci.job[b] = "success"
  /\ "update-deployment-node-dev" \in ci.started
       => ci.job["update-deployment-go-dev"] = "success"
  /\ (\E l \in LintJobs : ci.job[l] # "success")
       => ci.pushed = {} /\ ci.updated = {}
  /\ ~(\A u \in UpdateJobs : ci.job[u] = "running")

\* the whole pipeline has succeeded: both images pushed, both charts updated
C17_Witness ==
  /\ ci.pushed = BuildJobs /\ ci.updated = UpdateJobs
  /\ \A j \in Jobs : ci.job[j] = "success"

====
